---- MODULE Spec2Model ----
(***************************************************************************)
(* A model of the deterministic cleaner of dataclean-ai                    *)
(* (src/ml_pipeline/cleaning/cleaner.py, class DataCleaner) and of the     *)
(* analysis and recommendation steps of its ML front end                   *)
(* (src/ml_pipeline/cleaning/ml_cleaner.py, class MLDataCleaner).          *)
(*                                                                         *)
(* A DataFrame is a record [cols, dtype, rows]: the ordered column names,  *)
(* the dtype of every column ("num" for a numeric dtype, "obj" for the     *)
(* object dtype of text columns) and the rows in index order, each row a   *)
(* function from column name to cell.  A cell is a number, a text or the   *)
(* missing value (NaN/None).  Numbers are exact rationals n/d in lowest    *)
(* terms; the code computes in IEEE doubles, so a statistic that is not    *)
(* representable is rounded there and exact here.  A text is the sequence  *)
(* of its characters.                                                      *)
(***************************************************************************)
EXTENDS Integers, Sequences, FiniteSets, TLC

\* Bounds of the model.
MaxRows == 3
MaxOps == 2

VARIABLES original_df, cleaned_df, changes_log, clock, lastCall, result,
          caller_df, ids, returned,
          stage, artifacts, models, metadata, oracle, analysis, recommendations,
          output, auto_apply

\* The state of the DataCleaner and of its caller.
cleanerVars == <<original_df, cleaned_df, changes_log, clock, lastCall, result,
                 caller_df, ids, returned>>

\* The state of the MLDataCleaner.
mlVars == <<stage, artifacts, models, metadata, oracle, analysis, recommendations,
            output, auto_apply>>

vars == <<original_df, cleaned_df, changes_log, clock, lastCall, result,
          caller_df, ids, returned,
          stage, artifacts, models, metadata, oracle, analysis, recommendations,
          output, auto_apply>>

----------------------------------------------------------------------------
\* Cells.

Abs(x) == IF x < 0 THEN -x ELSE x

RECURSIVE Gcd(_, _)
Gcd(a, b) == IF b = 0 THEN a ELSE Gcd(b, a % b)

\* The missing value of pandas (NaN in a numeric column, None/NaN in an object column).
NA == [k |-> "na", n |-> 0, d |-> 1, s |-> <<>>]

\* Python's None, where the code keeps it apart from a value (fill_value).
None == [k |-> "none", n |-> 0, d |-> 1, s |-> <<>>]

\* The number n/d (d > 0) in lowest terms.
Num(n, d) ==
    LET g == Gcd(Abs(n), d)
    IN  [k |-> "num", n |-> n \div g, d |-> d \div g, s |-> <<>>]

Whole(n) == Num(n, 1)

\* The text with characters s.
Str(s) == [k |-> "str", n |-> 0, d |-> 1, s |-> s]

\* Series.isna() of one cell.
IsNA(c) == c.k = "na"

\* Arithmetic of numbers; NaN propagates as in IEEE arithmetic.
Add(a, b) == IF IsNA(a) \/ IsNA(b) THEN NA ELSE Num(a.n * b.d + b.n * a.d, a.d * b.d)
Sub(a, b) == IF IsNA(a) \/ IsNA(b) THEN NA ELSE Num(a.n * b.d - b.n * a.d, a.d * b.d)
Mul(a, b) == IF IsNA(a) \/ IsNA(b) THEN NA ELSE Num(a.n * b.n, a.d * b.d)

\* a < b and a <= b on numbers; every comparison with NaN is false.
Less(a, b) == ~IsNA(a) /\ ~IsNA(b) /\ a.n * b.d < b.n * a.d
Leq(a, b) == ~IsNA(a) /\ ~IsNA(b) /\ a.n * b.d <= b.n * a.d

----------------------------------------------------------------------------
\* Characters and the str methods used by standardize_format.

LowerChars == <<"a", "b", "c", "d", "e", "f", "g", "h", "i", "j", "k", "l", "m",
                "n", "o", "p", "q", "r", "s", "t", "u", "v", "w", "x", "y", "z">>
UpperChars == <<"A", "B", "C", "D", "E", "F", "G", "H", "I", "J", "K", "L", "M",
                "N", "O", "P", "Q", "R", "S", "T", "U", "V", "W", "X", "Y", "Z">>

IsLower(c) == \E i \in DOMAIN LowerChars : LowerChars[i] = c
IsUpper(c) == \E i \in DOMAIN UpperChars : UpperChars[i] = c
IsCased(c) == IsLower(c) \/ IsUpper(c)
IsSpace(c) == c = " "

CharUpper(c) ==
    IF IsLower(c) THEN UpperChars[CHOOSE i \in DOMAIN LowerChars : LowerChars[i] = c] ELSE c
CharLower(c) ==
    IF IsUpper(c) THEN LowerChars[CHOOSE i \in DOMAIN UpperChars : UpperChars[i] = c] ELSE c

\* The code point order of the characters of the model: space, upper case, lower case.
Ord(c) ==
    IF IsUpper(c) THEN 64 + (CHOOSE i \in DOMAIN UpperChars : UpperChars[i] = c)
    ELSE IF IsLower(c) THEN 96 + (CHOOSE i \in DOMAIN LowerChars : LowerChars[i] = c)
    ELSE 32

\* str.upper(), str.lower()
StrUpper(s) == [i \in DOMAIN s |-> CharUpper(s[i])]
StrLower(s) == [i \in DOMAIN s |-> CharLower(s[i])]

\* A title() that upper-cases the first character of a word and leaves the rest.
StrCapitalizeWords(s) ==
    [i \in DOMAIN s |->
        IF i > 1 /\ IsCased(s[i - 1]) THEN s[i] ELSE CharUpper(s[i])]

\* str.title(): a cased character is upper-cased when the character before it is
\* not cased (or there is none), and lower-cased otherwise.
StrTitle(s) ==
    [i \in DOMAIN s |->
        IF i > 1 /\ IsCased(s[i - 1]) THEN CharLower(s[i]) ELSE CharUpper(s[i])]

\* str.strip(): without the leading and the trailing white space.
StrStrip(s) ==
    LET inside == {i \in DOMAIN s : ~IsSpace(s[i])}
    IN  IF inside = {} THEN <<>>
        ELSE LET lo == CHOOSE i \in inside : \A j \in inside : i <= j
                 hi == CHOOSE i \in inside : \A j \in inside : j <= i
             IN  SubSeq(s, lo, hi)

\* s < t in the lexicographic order of Python strings.
StrLess(s, t) ==
    \/ /\ Len(s) < Len(t)
       /\ \A i \in DOMAIN s : s[i] = t[i]
    \/ \E i \in DOMAIN s \cap DOMAIN t :
          /\ \A j \in 1..(i - 1) : s[j] = t[j]
          /\ Ord(s[i]) < Ord(t[i])

\* The order in which Series.mode() sorts the values of one column.
CellLess(a, b) == IF a.k = "str" THEN StrLess(a.s, b.s) ELSE Less(a, b)

----------------------------------------------------------------------------
\* Series and DataFrame helpers (pandas).

Range(f) == {f[i] : i \in DOMAIN f}

\* df[column]: the cells of one column in index order.
Column(df, column) == [i \in DOMAIN df.rows |-> df.rows[i][column]]

\* column in df.columns
HasColumn(df, column) == column \in Range(df.cols)

\* A dtype test that lets every column pass.
IsNumericDtypeAny(df, column) == TRUE

\* pd.api.types.is_numeric_dtype(df[column])
IsNumericDtype(df, column) == df.dtype[column] = "num"

\* df.shape
Shape(df) == <<Len(df.rows), Len(df.cols)>>

\* df.empty: some axis has length 0.
IsEmpty(df) == Len(df.rows) = 0 \/ Len(df.cols) = 0

RECURSIVE Take(_, _, _)
Take(rows, mask, i) ==
    IF i > Len(rows) THEN <<>>
    ELSE (IF mask[i] THEN <<rows[i]>> ELSE <<>>) \o Take(rows, mask, i + 1)

\* df[mask].reset_index(drop=True): the rows whose mask is true, in order.
BooleanIndex(df, mask) == [df EXCEPT !.rows = Take(df.rows, mask, 1)]

\* Series.sum() of a boolean Series.
CountTrue(mask) == Cardinality({i \in DOMAIN mask : mask[i]})

\* isna().count() in place of isna().sum(): the length of the column.
MissingCountRows(df, column) == Len(df.rows)

\* df[column].isna().sum()
MissingCount(df, column) == Cardinality({i \in DOMAIN df.rows : IsNA(df.rows[i][column])})

\* Series.dropna(): the non-missing cells, in order.
DropNA(vals) == SelectSeq(vals, LAMBDA c : ~IsNA(c))

\* The non-missing numbers of a Series in ascending order.
Sorted(vals) == SortSeq(DropNA(vals), LAMBDA a, b : Less(a, b))

RECURSIVE SumSeq(_)
SumSeq(vals) == IF vals = <<>> THEN Whole(0) ELSE Add(Head(vals), SumSeq(Tail(vals)))

\* Series.mean(): NaN skipped; NaN when nothing is left.
Mean(vals) ==
    LET x == DropNA(vals)
    IN  IF Len(x) = 0 THEN NA ELSE Mul(SumSeq(x), Num(1, Len(x)))

\* Series.median(): NaN skipped; the middle value, or the mean of the two middle values.
Median(vals) ==
    LET x == Sorted(vals)
        m == Len(x)
    IN  IF m = 0 THEN NA
        ELSE IF m % 2 = 1 THEN x[(m + 1) \div 2]
        ELSE Mul(Add(x[m \div 2], x[m \div 2 + 1]), Num(1, 2))

\* Series.var() with ddof = 1, the square of Series.std(): NaN for fewer than two values.
Variance(vals) ==
    LET x == DropNA(vals)
        mu == Mean(vals)
        sq == [i \in DOMAIN x |-> Mul(Sub(x[i], mu), Sub(x[i], mu))]
    IN  IF Len(x) < 2 THEN NA ELSE Mul(SumSeq(sq), Num(1, Len(x) - 1))

\* A quantile without interpolation: the nearest rank below.
QuantileLower(vals, qn, qd) ==
    LET x == Sorted(vals)
    IN  IF Len(x) = 0 THEN NA ELSE x[((Len(x) - 1) * qn) \div qd + 1]

\* Series.quantile(qn/qd), linear interpolation between the two nearest ranks.
Quantile(vals, qn, qd) ==
    LET x == Sorted(vals)
        p == (Len(x) - 1) * qn
        lo == p \div qd + 1
        r == p % qd
    IN  IF Len(x) = 0 THEN NA
        ELSE IF r = 0 THEN x[lo]
        ELSE Add(x[lo], Mul(Sub(x[lo + 1], x[lo]), Num(r, qd)))

\* Series.mode(): the most frequent non-missing values (sorted ascending by pandas).
Modes(vals) ==
    LET x == DropNA(vals)
        Count(v) == Cardinality({i \in DOMAIN x : x[i] = v})
    IN  {v \in Range(x) : \A w \in Range(x) : Count(w) <= Count(v)}

\* Series.mode()[0]: the smallest of the most frequent values.
ModeFirst(vals) == CHOOSE v \in Modes(vals) : \A w \in Modes(vals) : ~CellLess(w, v)

----------------------------------------------------------------------------
\* DataCleaner: the four cleaning operations.  Each operator gives the outcome
\* of one call on the working table df at time now: the working table after the
\* call, the entries appended to changes_log (one or none) and the dict returned.
\* An exception raised inside the try block is the error dict of its except
\* branch.  The timestamp of an entry is the number of the call, and
\* fill_value is kept as the value the code turns into a string.

Outcome(df, entry, res) == [df |-> df, entry |-> entry, result |-> res]

\* A duplicated() that marks one row of each group of equal rows only, the last.
DuplicatedOnePerGroup(df, keep) ==
    [i \in DOMAIN df.rows |->
        /\ \E j \in DOMAIN df.rows : j < i /\ df.rows[j] = df.rows[i]
        /\ ~\E j \in DOMAIN df.rows : j > i /\ df.rows[j] = df.rows[i]]

\* A duplicated() that takes rows for equal when their first cells are equal.
DuplicatedFirstColumn(df, keep) ==
    [i \in DOMAIN df.rows |->
        \E j \in DOMAIN df.rows :
            /\ df.rows[j][df.cols[1]] = df.rows[i][df.cols[1]]
            /\ CASE keep = "first" -> j < i
                 [] keep = "last" -> j > i
                 [] OTHER -> j # i]

\* A duplicated() that compares a row with its neighbour only.
DuplicatedAdjacent(df, keep) ==
    [i \in DOMAIN df.rows |->
        \E j \in DOMAIN df.rows :
            /\ df.rows[j] = df.rows[i]
            /\ CASE keep = "first" -> j = i - 1
                 [] keep = "last" -> j = i + 1
                 [] OTHER -> j \in {i - 1, i + 1}]

\* DataFrame.duplicated(keep): row i is marked when an equal row stands before
\* it (keep='first'), after it (keep='last') or anywhere else (keep=False).
\* Missing cells in the same position count as equal.
Duplicated(df, keep) ==
    [i \in DOMAIN df.rows |->
        \E j \in DOMAIN df.rows :
            /\ df.rows[j] = df.rows[i]
            /\ CASE keep = "first" -> j < i
                 [] keep = "last" -> j > i
                 [] OTHER -> j # i]

\* The values DataFrame.duplicated accepts for keep; "False" is Python's False.
ValidKeep == {"first", "last", "False"}

\* A remove_duplicates that drops the rows and forgets the log.
RemoveDuplicatesUnlogged(df, keep, now) ==
    LET duplicates == Duplicated(df, keep)
        cleaned == BooleanIndex(df, [i \in DOMAIN duplicates |-> ~duplicates[i]])
    IN  Outcome(cleaned, <<>>, [rows_removed |-> CountTrue(duplicates),
                                original_count |-> Len(df.rows),
                                cleaned_count |-> Len(cleaned.rows)])

RemoveDuplicatesOp(df, keep, now) ==
    LET original_count == Len(df.rows)
        duplicates == Duplicated(df, keep)
        duplicate_count == CountTrue(duplicates)
        cleaned == BooleanIndex(df, [i \in DOMAIN duplicates |-> ~duplicates[i]])
        change == [operation |-> "remove_duplicates",
                   timestamp |-> now,
                   rows_removed |-> duplicate_count,
                   original_count |-> original_count,
                   cleaned_count |-> Len(cleaned.rows)]
    IN  IF keep \notin ValidKeep /\ ~IsEmpty(df)
        THEN Outcome(df, <<>>, [error |-> "keep must be either first, last or False",
                                rows_removed |-> 0])
        ELSE IF IsEmpty(df) \/ duplicate_count = 0
        THEN Outcome(df, <<>>, [rows_removed |-> 0,
                                original_count |-> original_count,
                                cleaned_count |-> original_count])
        ELSE Outcome(cleaned, <<change>>, change)

\* Series.fillna(value, inplace=True) on df[column]: every missing cell of the
\* column becomes value (filling with NaN changes nothing).  The Series is the
\* frame's cached column, so the fill reaches the frame (pandas before 3.0).
FillNA(df, column, value) ==
    [df EXCEPT !.rows =
        [i \in DOMAIN df.rows |->
            IF IsNA(df.rows[i][column])
            THEN [df.rows[i] EXCEPT ![column] = value]
            ELSE df.rows[i]]]

\* A dropna() without subset: every row with a missing cell anywhere is dropped.
DropNARowsAnyColumn(df, column) ==
    BooleanIndex(df, [i \in DOMAIN df.rows |->
                         \A c \in Range(df.cols) : ~IsNA(df.rows[i][c])])

\* df.dropna(subset=[column]).reset_index(drop=True)
DropNARows(df, column) ==
    BooleanIndex(df, [i \in DOMAIN df.rows |-> ~IsNA(df.rows[i][column])])

\* Whether Series.mean()/Series.median() raises TypeError: an object column
\* holding a text cannot be reduced to a number.  An object column whose cells
\* are all missing reduces to NaN without error.
ReduceRaises(df, column) ==
    /\ ~IsNumericDtype(df, column)
    /\ \E i \in DOMAIN df.rows : df.rows[i][column].k = "str"

\* An 'auto' that stands for the mean on numeric columns.
ResolveStrategyMean(df, column, strategy) ==
    IF strategy = "auto"
    THEN IF IsNumericDtype(df, column) THEN "mean" ELSE "mode"
    ELSE strategy

\* The strategy 'auto' stands for.
ResolveStrategy(df, column, strategy) ==
    IF strategy = "auto"
    THEN IF IsNumericDtype(df, column) THEN "median" ELSE "mode"
    ELSE strategy

FillMissingValuesOp(df, column, strategy, now) ==
    LET missing_count == MissingCount(df, column)
        used == ResolveStrategy(df, column, strategy)
        vals == Column(df, column)
        fill_value == CASE used = "mean" -> Mean(vals)
                        [] used = "median" -> Median(vals)
                        [] used = "mode" -> IF Modes(vals) # {} THEN ModeFirst(vals) ELSE None
                        [] OTHER -> Str(<<"dropped_rows">>)
        cleaned == CASE used = "drop" -> DropNARows(df, column)
                     [] used = "mode" /\ fill_value = None -> df
                     [] OTHER -> FillNA(df, column, fill_value)
        change == [operation |-> "fill_missing_values",
                   timestamp |-> now,
                   column |-> column,
                   values_filled |-> missing_count,
                   strategy_used |-> used,
                   fill_value |-> fill_value]
    IN  IF ~HasColumn(df, column)
        THEN Outcome(df, <<>>, [error |-> "Column not found", values_filled |-> 0])
        ELSE IF missing_count = 0
        THEN Outcome(df, <<>>, [values_filled |-> 0,
                                strategy_used |-> strategy,
                                fill_value |-> None])
        ELSE IF used \in {"mean", "median"} /\ ReduceRaises(df, column)
        THEN Outcome(df, <<>>, [error |-> "TypeError", values_filled |-> 0])
        ELSE IF used \notin {"mean", "median", "mode", "drop"}
        THEN Outcome(df, <<>>, [error |-> "Unknown strategy", values_filled |-> 0])
        ELSE Outcome(cleaned, <<change>>, change)

\* (column >= lower_bound) & (column <= upper_bound) with the IQR bounds.
IqrMask(vals, threshold) ==
    LET q1 == Quantile(vals, 1, 4)
        q3 == Quantile(vals, 3, 4)
        iqr == Sub(q3, q1)
        lower_bound == Sub(q1, Mul(threshold, iqr))
        upper_bound == Add(q3, Mul(threshold, iqr))
    IN  [i \in DOMAIN vals |-> Leq(lower_bound, vals[i]) /\ Leq(vals[i], upper_bound)]

\* A z-score mask that keeps the rows whose z-score equals the threshold.
ZscoreMaskInclusive(vals, threshold) ==
    LET mean == Mean(vals)
        var == Variance(vals)
        dev(i) == Sub(vals[i], mean)
    IN  [i \in DOMAIN vals |->
            /\ ~IsNA(vals[i])
            /\ Less(Whole(0), var)
            /\ Less(Whole(0), threshold)
            /\ Leq(Mul(dev(i), dev(i)), Mul(Mul(threshold, threshold), var))]

\* np.abs((column - mean) / std) < threshold.  The quotient is NaN for a missing
\* cell, for an undefined std and for 0/0, and NaN < threshold is false; for
\* std > 0 the comparison is done on the squares, |v - mean|^2 < threshold^2 * var.
ZscoreMask(vals, threshold) ==
    LET mean == Mean(vals)
        var == Variance(vals)
        dev(i) == Sub(vals[i], mean)
    IN  [i \in DOMAIN vals |->
            /\ ~IsNA(vals[i])
            /\ Less(Whole(0), var)
            /\ Less(Whole(0), threshold)
            /\ Less(Mul(dev(i), dev(i)), Mul(Mul(threshold, threshold), var))]

RemoveOutliersOp(df, column, method, threshold, now) ==
    LET original_count == Len(df.rows)
        vals == Column(df, column)
        mask == IF method = "iqr" THEN IqrMask(vals, threshold) ELSE ZscoreMask(vals, threshold)
        cleaned == BooleanIndex(df, mask)
        change == [operation |-> "remove_outliers",
                   timestamp |-> now,
                   column |-> column,
                   method |-> method,
                   outliers_removed |-> original_count - Len(cleaned.rows),
                   original_count |-> original_count,
                   cleaned_count |-> Len(cleaned.rows)]
    IN  IF ~HasColumn(df, column)
        THEN Outcome(df, <<>>, [error |-> "Column not found", outliers_removed |-> 0])
        ELSE IF ~IsNumericDtype(df, column)
        THEN Outcome(df, <<>>, [error |-> "Column is not numeric", outliers_removed |-> 0])
        ELSE IF method \notin {"iqr", "zscore"}
        THEN Outcome(df, <<>>, [error |-> "Unknown method", outliers_removed |-> 0])
        ELSE Outcome(cleaned, <<change>>, change)

\* Series.str.upper()/lower()/title() followed by Series.str.strip() on one
\* cell; 'auto' is title; any other target_format only strips; a missing cell
\* stays missing.
FormatCell(c, target_format) ==
    IF IsNA(c) THEN NA
    ELSE Str(StrStrip(CASE target_format = "upper" -> StrUpper(c.s)
                        [] target_format = "lower" -> StrLower(c.s)
                        [] target_format \in {"title", "auto"} -> StrTitle(c.s)
                        [] OTHER -> c.s))

\* One element of original_values != df[column]: a comparison with a missing
\* value is unequal, also with another missing value.
CellDiffers(a, b) == IsNA(a) \/ IsNA(b) \/ a # b

StandardizeFormatOp(df, column, target_format, now) ==
    LET original_values == Column(df, column)
        cleaned == [df EXCEPT !.rows =
                       [i \in DOMAIN df.rows |->
                           [df.rows[i] EXCEPT ![column] = FormatCell(@, target_format)]]]
        changed_count == Cardinality({i \in DOMAIN df.rows :
                             CellDiffers(original_values[i], cleaned.rows[i][column])})
        change == [operation |-> "standardize_format",
                   timestamp |-> now,
                   column |-> column,
                   target_format |-> target_format,
                   values_changed |-> changed_count]
    IN  IF ~HasColumn(df, column)
        THEN Outcome(df, <<>>, [error |-> "Column not found", values_changed |-> 0])
        ELSE IF IsNumericDtype(df, column)
        THEN Outcome(df, <<>>, [error |-> "Can only use .str accessor with string values",
                                values_changed |-> 0])
        ELSE Outcome(cleaned, <<change>>, change)

----------------------------------------------------------------------------
\* The tables a DataCleaner is constructed from.

Frame(cols, dtype, rows) == [cols |-> cols, dtype |-> dtype, rows |-> rows]

NameAge(name, age) == [name |-> name, age |-> age]

PersonDtype == [name |-> "obj", age |-> "num"]

JohnDoe == Str(<<"J", "o", "h", "n", " ", "D", "o", "e">>)
JOHNDOE == Str(<<"J", "O", "H", "N", " ", "D", "O", "E">>)
Jane == Str(<<"J", "a", "n", "e">>)
Bob == Str(<<"b", "o", "b">>)
BobPadded == Str(<<" ", "B", "o", "b">>)

\* Rows that differ only in casing, and the same table with the rows made identical.
CasingTable ==
    Frame(<<"name", "age">>, PersonDtype,
          <<NameAge(JohnDoe, Whole(25)), NameAge(JOHNDOE, Whole(25)), NameAge(Jane, Whole(30))>>)
IdenticalTable ==
    Frame(<<"name", "age">>, PersonDtype,
          <<NameAge(JohnDoe, Whole(25)), NameAge(JohnDoe, Whole(25)), NameAge(Jane, Whole(30))>>)

\* The numeric column [10,12,11,13,1000].
OutlierTable ==
    Frame(<<"age">>, [age |-> "num"],
          <<[age |-> Whole(10)], [age |-> Whole(12)], [age |-> Whole(11)],
            [age |-> Whole(13)], [age |-> Whole(1000)]>>)

\* The text column ["  bob  ", "ALICE", "Carol"].
FormatTable ==
    Frame(<<"name">>, [name |-> "obj"],
          <<[name |-> Str(<<" ", " ", "b", "o", "b", " ", " ">>)],
            [name |-> Str(<<"A", "L", "I", "C", "E">>)],
            [name |-> Str(<<"C", "a", "r", "o", "l">>)]>>)

\* A table with repeated rows and missing cells in both columns.
MessyTable ==
    Frame(<<"name", "age">>, PersonDtype,
          <<NameAge(Bob, Whole(1)), NameAge(BobPadded, Whole(5)), NameAge(Bob, Whole(1)),
            NameAge(NA, Whole(9)), NameAge(Bob, Whole(1)), NameAge(BobPadded, NA)>>)

\* Two names equally frequent, and an age column with a single number.
TieTable ==
    Frame(<<"name", "age">>, PersonDtype,
          <<NameAge(Bob, NA), NameAge(BobPadded, Whole(5)), NameAge(NA, NA)>>)

SampleTables ==
    {CasingTable, IdenticalTable, OutlierTable, FormatTable, MessyTable, TieTable}

\* Every table of at most MaxRows rows over a few cells per column.
AgeCells == {Whole(1), Whole(5), Whole(9), NA}
NameCells == {BobPadded, NA}

SmallTables ==
    {Frame(<<"name", "age">>, PersonDtype, rows) :
        rows \in UNION {[1..m -> [name : NameCells, age : AgeCells]] : m \in 0..MaxRows}}

----------------------------------------------------------------------------
\* The arguments of the calls.

Columns == {"name", "age", "zip"}
KeepArgs == {"first", "last", "False", "all"}
Strategies == {"auto", "mean", "median", "mode", "drop", "knn"}
Methods == {"iqr", "zscore", "mad"}
Thresholds == {Num(1, 2), Whole(1), Num(3, 2)}
Formats == {"upper", "lower", "title", "auto", "snake"}

NoCall == [operation |-> "none", column |-> "", param |-> "", threshold |-> NA]
NoResult == [none |-> TRUE]

CallOf(operation, column, param, threshold) ==
    [operation |-> operation, column |-> column, param |-> param, threshold |-> threshold]

IsError(res) == "error" \in DOMAIN res

----------------------------------------------------------------------------
\* The state machine: one DataCleaner and the calls made on it.

\* Object identity.  caller_df is the table the caller passed to the
\* constructor and returned the tables get_cleaned_data has handed out, in
\* call order, each [id, df].  ids names the DataFrame object behind caller_df,
\* original_df and cleaned_df: two references with one id are one object, and
\* a write through one is seen through the other.
UsedIds ==
    {ids.caller, ids.original, ids.cleaned} \cup {returned[i].id : i \in DOMAIN returned}

\* The identity of a newly created object: the smallest one not in use.
FreshId(used) ==
    CHOOSE n \in 0..Cardinality(used) :
        n \notin used /\ \A m \in 0..(n - 1) : m \in used

\* __init__ keeps two copies of df, so the three tables are three objects.
ConstructIdsShared == [caller |-> 0, original |-> 1, cleaned |-> 0]

ConstructIds == [caller |-> 0, original |-> 1, cleaned |-> 2]

\* DataCleaner.__init__(df)
Construct(df) ==
    /\ caller_df = df
    /\ ids = ConstructIds
    /\ returned = <<>>
    /\ original_df = df
    /\ cleaned_df = df
    /\ changes_log = <<>>
    /\ clock = 0
    /\ lastCall = NoCall
    /\ result = NoResult

\* No MLDataCleaner has been constructed.
NoAnalyzer ==
    /\ stage = "new"
    /\ artifacts = NoResult
    /\ models = <<>>
    /\ metadata = NoResult
    /\ oracle = <<>>
    /\ analysis = NoResult
    /\ recommendations = <<>>
    /\ output = NoResult
    /\ auto_apply = FALSE

Init == NoAnalyzer /\ \E df \in SampleTables : Construct(df)

\* How a call changed self.cleaned_df: "rebind" when it assigned a new table
\* to the attribute, "inplace" when it wrote into the table object, "none"
\* when it returned before either.
Binding(call, out) ==
    IF out.entry = <<>> THEN "none"
    ELSE IF call.operation \in {"remove_duplicates", "remove_outliers"} THEN "rebind"
    ELSE IF call.operation = "fill_missing_values" /\ out.result.strategy_used = "drop"
         THEN "rebind"
    ELSE "inplace"

\* self.changes_log = [change] in place of the append.
LogLatestOnly(log, entry) == IF entry = <<>> THEN log ELSE entry

\* self.changes_log.append(change), for the entry of a successful call.
AppendLog(log, entry) == log \o entry

\* The table behind a reference with identity id after the object target was
\* written to hold df.
Written(id, old, target, df) == IF id = target THEN df ELSE old

WrittenAll(handles, target, df) ==
    [i \in DOMAIN handles |->
        [handles[i] EXCEPT !.df = Written(handles[i].id, handles[i].df, target, df)]]

\* The effect of one call with outcome out.
Effect(call, out) ==
    LET how == Binding(call, out)
        target == IF how = "inplace" THEN ids.cleaned ELSE -1
    IN  /\ clock' = clock + 1
        /\ lastCall' = call
        /\ cleaned_df' = out.df
        /\ ids' = IF how = "rebind"
                  THEN [ids EXCEPT !.cleaned = FreshId(UsedIds)]
                  ELSE ids
        /\ original_df' = Written(ids.original, original_df, target, out.df)
        /\ caller_df' = Written(ids.caller, caller_df, target, out.df)
        /\ returned' = WrittenAll(returned, target, out.df)
        /\ changes_log' = AppendLog(changes_log, out.entry)
        /\ result' = out.result
        /\ UNCHANGED mlVars

\* One call of the caller, who makes at most MaxOps of them.
Apply(call, out) == clock < MaxOps /\ Effect(call, out)

RemoveDuplicates ==
    \E keep \in KeepArgs :
        Apply(CallOf("remove_duplicates", "", keep, NA),
              RemoveDuplicatesOp(cleaned_df, keep, clock + 1))

FillMissingValues ==
    \E column \in Columns, strategy \in Strategies :
        Apply(CallOf("fill_missing_values", column, strategy, NA),
              FillMissingValuesOp(cleaned_df, column, strategy, clock + 1))

RemoveOutliers ==
    \E column \in Columns, method \in Methods, threshold \in Thresholds :
        Apply(CallOf("remove_outliers", column, method, threshold),
              RemoveOutliersOp(cleaned_df, column, method, threshold, clock + 1))

StandardizeFormat ==
    \E column \in Columns, target_format \in Formats :
        Apply(CallOf("standardize_format", column, target_format, NA),
              StandardizeFormatOp(cleaned_df, column, target_format, clock + 1))

Next ==
    \/ RemoveDuplicates
    \/ FillMissingValues
    \/ RemoveOutliers
    \/ StandardizeFormat

Spec == Init /\ [][Next]_vars

\* One call on a freshly constructed DataCleaner, for every small table and
\* every sample table.
InitSingle == NoAnalyzer /\ \E df \in SmallTables \cup SampleTables : Construct(df)

NextSingle ==
    \/ clock = 0 /\ RemoveDuplicates
    \/ clock = 0 /\ FillMissingValues
    \/ clock = 0 /\ RemoveOutliers
    \/ clock = 0 /\ StandardizeFormat

SpecSingle == InitSingle /\ [][NextSingle]_vars

\* The reading operations, and a caller that edits the tables it was handed.

\* get_cleaned_data returning self.cleaned_df itself.
ReturnedIdLive(cleaned_id, fresh) == cleaned_id

\* The object get_cleaned_data returns: self.cleaned_df.copy(), a new one.
ReturnedId(cleaned_id, fresh) == fresh

\* A reading call: it returns res and leaves the DataCleaner as it was.
Read(call, res) ==
    /\ clock < MaxOps
    /\ clock' = clock + 1
    /\ lastCall' = call
    /\ result' = res
    /\ UNCHANGED <<original_df, cleaned_df, changes_log, caller_df, ids>>
    /\ UNCHANGED mlVars

GetCleanedData ==
    /\ Read(CallOf("get_cleaned_data", "", "", NA), [table |-> cleaned_df])
    /\ returned' = Append(returned, [id |-> ReturnedId(ids.cleaned, FreshId(UsedIds)),
                                     df |-> cleaned_df])

GetChangesLog ==
    /\ Read(CallOf("get_changes_log", "", "", NA), [log |-> changes_log])
    /\ UNCHANGED returned

\* A summary that keeps the shape of the table at construction.
SummaryAtConstruction(original, cleaned, log) ==
    [original_shape |-> Shape(original),
     cleaned_shape |-> Shape(original),
     rows_removed |-> 0,
     operations_performed |-> Len(log),
     changes_log |-> log]

Summary(original, cleaned, log) ==
    [original_shape |-> Shape(original),
     cleaned_shape |-> Shape(cleaned),
     rows_removed |-> Len(original.rows) - Len(cleaned.rows),
     operations_performed |-> Len(log),
     changes_log |-> log]

GetSummary ==
    /\ Read(CallOf("get_summary", "", "", NA), Summary(original_df, cleaned_df, changes_log))
    /\ UNCHANGED returned

\* What a caller may do to a table it holds: drop its first row, or blank the
\* first cell of its first row.
CallerEdits(df) ==
    IF df.rows = <<>> THEN {}
    ELSE {[df EXCEPT !.rows = Tail(df.rows)]}
         \cup ({[df EXCEPT !.rows[1][df.cols[1]] = NA]} \ {df})

\* The caller edits, in place, one of the tables get_cleaned_data returned.
CallerMutates ==
    \E i \in DOMAIN returned : \E df \in CallerEdits(returned[i].df) :
        LET target == returned[i].id
        IN  /\ returned' = WrittenAll(returned, target, df)
            /\ cleaned_df' = Written(ids.cleaned, cleaned_df, target, df)
            /\ original_df' = Written(ids.original, original_df, target, df)
            /\ caller_df' = Written(ids.caller, caller_df, target, df)
            /\ UNCHANGED <<changes_log, clock, lastCall, result, ids>>
            /\ UNCHANGED mlVars

NextCaller ==
    \/ RemoveDuplicates
    \/ FillMissingValues
    \/ RemoveOutliers
    \/ StandardizeFormat
    \/ GetCleanedData
    \/ GetChangesLog
    \/ GetSummary
    \/ CallerMutates

\* The tables of the DataCleaner whose caller reads and edits.
CallerTables == {CasingTable, OutlierTable, FormatTable, TieTable}

InitCaller == NoAnalyzer /\ \E df \in CallerTables : Construct(df)

SpecCaller == InitCaller /\ [][NextCaller]_vars

----------------------------------------------------------------------------
\* Properties.

\* The rows of a sequence at the indices in S, in index order.
RowsAt(rows, S) ==
    [k \in 1..Cardinality(S) |->
        rows[CHOOSE i \in S : Cardinality({j \in S : j < i}) = k - 1]]

Called(operation) == clock > 0 /\ lastCall.operation = operation

\* The effect count of the dict returned by the last call.
EffectCount(call, res) ==
    CASE call.operation = "remove_duplicates" -> res.rows_removed
      [] call.operation = "fill_missing_values" -> res.values_filled
      [] call.operation = "remove_outliers" -> res.outliers_removed
      [] call.operation = "standardize_format" -> res.values_changed

Survivors(rows, keep) ==
    {i \in DOMAIN rows :
        CASE keep = "first" -> \A j \in DOMAIN rows : rows[j] = rows[i] => i <= j
          [] keep = "last" -> \A j \in DOMAIN rows : rows[j] = rows[i] => j <= i
          [] OTHER -> \A j \in DOMAIN rows : rows[j] = rows[i] => j = i}

\* C2: remove_duplicates(keep) with keep first, last or False (the spec's
\* "none") on a fresh table keeps of every group of identical rows the first,
\* the last or no occurrence, never removes a row that differs from every other
\* row in some cell, keeps the survivors in their order and reports
\* rows_removed = original_count - cleaned_count; the table with one identical
\* pair among three rows gives rows_removed = 1 and cleaned_count = 2, its
\* variant differing in casing gives rows_removed = 0.
C2_RemoveDuplicatesKeeps ==
    (clock = 1 /\ Called("remove_duplicates") /\ lastCall.param \in ValidKeep)
    => /\ ~IsError(result)
       /\ cleaned_df.rows = RowsAt(original_df.rows, Survivors(original_df.rows, lastCall.param))
       /\ cleaned_df.cols = original_df.cols
       /\ result.rows_removed = Len(original_df.rows) - Len(cleaned_df.rows)
       /\ result.rows_removed > 0 =>
             /\ result.original_count = Len(original_df.rows)
             /\ result.cleaned_count = Len(cleaned_df.rows)
       /\ (original_df = IdenticalTable /\ lastCall.param = "first") =>
             /\ result.rows_removed = 1
             /\ result.cleaned_count = 2
       /\ original_df = CasingTable =>
             /\ result.rows_removed = 0
             /\ cleaned_df = original_df

\* keep=False on a table with a group of three equal rows and single rows.
C2_Witness ==
    /\ clock = 1
    /\ lastCall = CallOf("remove_duplicates", "", "False", NA)
    /\ original_df = MessyTable
    /\ result.rows_removed = 3
    /\ Len(cleaned_df.rows) = 3

FirstCall(operation) == clock = 1 /\ lastCall.operation = operation

NoMissing(df, column) == \A i \in DOMAIN df.rows : ~IsNA(df.rows[i][column])

Untouched == cleaned_df = original_df /\ changes_log = <<>>

\* C4: fill_missing_values on a column without missing values, with any
\* strategy, reports values_filled = 0, leaves the working table as it was and
\* appends no entry.
C4_NoMissingNothingFilled ==
    (/\ FirstCall("fill_missing_values")
     /\ HasColumn(original_df, lastCall.column)
     /\ NoMissing(original_df, lastCall.column))
    => /\ result.values_filled = 0
       /\ Untouched

\* A mean fill asked of a numeric column of three numbers.
C4_Witness ==
    /\ FirstCall("fill_missing_values")
    /\ lastCall.column = "age" /\ lastCall.param = "mean"
    /\ HasColumn(original_df, "age")
    /\ Len(original_df.rows) = 3
    /\ NoMissing(original_df, "age")
    /\ ~IsError(result)
    /\ result.values_filled = 0

\* C5: fill_missing_values, remove_outliers or standardize_format on a column
\* that is not in the working table, and remove_outliers on a column that is
\* not numeric, return an error result with effect count zero and leave the
\* working table and the change log as they were.
C5_BadColumnIsError ==
    (/\ clock = 1
     /\ lastCall.operation \in {"fill_missing_values", "remove_outliers", "standardize_format"}
     /\ \/ ~HasColumn(original_df, lastCall.column)
        \/ /\ lastCall.operation = "remove_outliers"
           /\ original_df.dtype[lastCall.column] = "obj")
    => /\ IsError(result)
       /\ EffectCount(lastCall, result) = 0
       /\ Untouched

\* remove_outliers on the text column of a table with rows.
C5_Witness ==
    /\ FirstCall("remove_outliers")
    /\ lastCall.column = "name" /\ lastCall.param = "iqr"
    /\ Len(original_df.rows) = 3
    /\ IsError(result)
    /\ result.outliers_removed = 0

\* C6: fill_missing_values with strategy mean or median on a non-numeric column
\* (here: one that holds at least one text) returns an error result and
\* changes neither the working table nor the log.
C6_NumericStrategyOnTextFails ==
    (/\ FirstCall("fill_missing_values")
     /\ lastCall.param \in {"mean", "median"}
     /\ HasColumn(original_df, lastCall.column)
     /\ original_df.dtype[lastCall.column] = "obj"
     /\ \E i \in DOMAIN original_df.rows : original_df.rows[i][lastCall.column].k = "str")
    => /\ IsError(result)
       /\ Untouched

\* Order statistics by counting: v is the r-th smallest of x.
IsOrderStat(x, r, v) ==
    /\ Cardinality({i \in DOMAIN x : Less(x[i], v)}) < r
    /\ r <= Cardinality({i \in DOMAIN x : Leq(x[i], v)})

\* m is the median of the numbers x (Len(x) > 0).
IsMedian(x, m) ==
    IF Len(x) % 2 = 1
    THEN \E i \in DOMAIN x : x[i] = m /\ IsOrderStat(x, (Len(x) + 1) \div 2, m)
    ELSE \E i, j \in DOMAIN x :
            /\ IsOrderStat(x, Len(x) \div 2, x[i])
            /\ IsOrderStat(x, Len(x) \div 2 + 1, x[j])
            /\ m.k = "num"
            /\ 2 * m.n * x[i].d * x[j].d = m.d * (x[i].n * x[j].d + x[j].n * x[i].d)

\* v is a most frequent value of x.
IsMode(x, v) ==
    /\ \E i \in DOMAIN x : x[i] = v
    /\ \A w \in Range(x) :
          Cardinality({i \in DOMAIN x : x[i] = w}) <= Cardinality({i \in DOMAIN x : x[i] = v})

\* C7: fill_missing_values(column, 'auto') on a column with a missing and a
\* non-missing value uses the median on a numeric column and a most frequent
\* value otherwise, puts that one value in every missing cell of the column,
\* leaves every other cell and the number of rows as they were, and appends
\* and returns one entry whose strategy_used is median or mode.
C7_AutoFill ==
    (/\ FirstCall("fill_missing_values")
     /\ lastCall.param = "auto"
     /\ HasColumn(original_df, lastCall.column)
     /\ ~NoMissing(original_df, lastCall.column)
     /\ \E i \in DOMAIN original_df.rows : ~IsNA(original_df.rows[i][lastCall.column]))
    => LET col == lastCall.column
           present == SelectSeq(Column(original_df, col), LAMBDA c : ~IsNA(c))
       IN  /\ ~IsError(result)
           /\ changes_log = <<result>>
           /\ result.operation = "fill_missing_values"
           /\ result.column = col
           /\ IF original_df.dtype[col] = "num"
              THEN result.strategy_used = "median" /\ IsMedian(present, result.fill_value)
              ELSE result.strategy_used = "mode" /\ IsMode(present, result.fill_value)
           /\ cleaned_df.cols = original_df.cols
           /\ DOMAIN cleaned_df.rows = DOMAIN original_df.rows
           /\ \A i \in DOMAIN original_df.rows :
                 \A c \in Range(original_df.cols) :
                    cleaned_df.rows[i][c] =
                       IF c = col /\ IsNA(original_df.rows[i][c])
                       THEN result.fill_value
                       ELSE original_df.rows[i][c]

\* The median of two numbers filled into the missing cell between them.
C7_Witness ==
    /\ FirstCall("fill_missing_values")
    /\ lastCall.column = "age" /\ lastCall.param = "auto"
    /\ HasColumn(original_df, "age")
    /\ Column(original_df, "age") = <<Whole(1), NA, Whole(9)>>
    /\ Column(cleaned_df, "age") = <<Whole(1), Whole(5), Whole(9)>>
    /\ result.strategy_used = "median"

\* The mode of a text column filled into its missing cell.
C7_WitnessText ==
    /\ FirstCall("fill_missing_values")
    /\ lastCall.column = "name" /\ lastCall.param = "auto"
    /\ original_df = TieTable
    /\ result.strategy_used = "mode"
    /\ Column(cleaned_df, "name") = <<Bob, BobPadded, BobPadded>>

\* The whole numbers of a column, as integers (the columns of the initial
\* tables hold whole numbers).
Ints(df, column) == [i \in DOMAIN df.rows |-> df.rows[i][column].n]

\* The r-th smallest of the integers x, by counting.
OrderStat(x, r) ==
    CHOOSE v \in Range(x) :
        /\ Cardinality({i \in DOMAIN x : x[i] < v}) < r
        /\ r <= Cardinality({i \in DOMAIN x : x[i] <= v})

\* Four times the quantile qn/4 of the integers x: the value at rank
\* 1 + (Len(x) - 1) * qn / 4, interpolated linearly between the two nearest ranks.
Quartile4(x, qn) ==
    LET p == (Len(x) - 1) * qn
        lo == p \div 4 + 1
    IN  IF p % 4 = 0 THEN 4 * OrderStat(x, lo)
        ELSE 4 * OrderStat(x, lo) + (p % 4) * (OrderStat(x, lo + 1) - OrderStat(x, lo))

\* The rows whose value lies in [Q1 - t*IQR, Q3 + t*IQR], t = tn/td, with both
\* sides of each comparison multiplied by 4*td.
InsideIqr(x, tn, td) ==
    LET q1 == Quartile4(x, 1)
        q3 == Quartile4(x, 3)
    IN  {i \in DOMAIN x :
            /\ td * q1 - tn * (q3 - q1) <= 4 * td * x[i]
            /\ 4 * td * x[i] <= td * q3 + tn * (q3 - q1)}

\* C8: remove_outliers(column, 'iqr', threshold) on a numeric column without
\* missing values keeps exactly the rows whose value lies in
\* [Q1 - threshold*IQR, Q3 + threshold*IQR], in their order, and reports the
\* number of rows removed as outliers_removed; on [10,12,11,13,1000] with
\* threshold 1.5 it removes the row with 1000 only and reports 1.
C8_IqrRemovesOutside ==
    (/\ FirstCall("remove_outliers")
     /\ lastCall.param = "iqr"
     /\ HasColumn(original_df, lastCall.column)
     /\ original_df.dtype[lastCall.column] = "num"
     /\ NoMissing(original_df, lastCall.column)
     /\ Len(original_df.rows) > 0)
    => LET x == Ints(original_df, lastCall.column)
           inside == InsideIqr(x, lastCall.threshold.n, lastCall.threshold.d)
       IN  /\ ~IsError(result)
           /\ cleaned_df.rows = RowsAt(original_df.rows, inside)
           /\ cleaned_df.cols = original_df.cols
           /\ result.outliers_removed = Len(original_df.rows) - Cardinality(inside)
           /\ (original_df = OutlierTable /\ lastCall.threshold = Num(3, 2)) =>
                 /\ Ints(cleaned_df, "age") = <<10, 12, 11, 13>>
                 /\ result.outliers_removed = 1

\* The scenario column after the call with threshold 1.5.
C8_Witness ==
    /\ FirstCall("remove_outliers")
    /\ lastCall = CallOf("remove_outliers", "age", "iqr", Num(3, 2))
    /\ original_df = OutlierTable
    /\ Len(cleaned_df.rows) = 4
    /\ result.outliers_removed = 1

RECURSIVE IntSum(_, _)
IntSum(x, i) == IF i > Len(x) THEN 0 ELSE x[i] + IntSum(x, i + 1)

\* n times the deviation of x[i] from the mean of the integers x.
Dev(x, i) == Len(x) * x[i] - IntSum(x, 1)

\* The sum of the squares of the scaled deviations.
RECURSIVE SumSquares(_, _)
SumSquares(x, i) == IF i > Len(x) THEN 0 ELSE Dev(x, i) * Dev(x, i) + SumSquares(x, i + 1)

\* |x[i] - mean| / stddev >= tn/td for stddev > 0 (sample standard deviation):
\* squared and cleared of denominators,
\* Dev(i)^2 * (n - 1) * td^2 >= tn^2 * SumSquares.
ZAtLeast(x, i, tn, td) ==
    Dev(x, i) * Dev(x, i) * (Len(x) - 1) * td * td >= tn * tn * SumSquares(x, 1)

\* C9: remove_outliers(column, 'zscore', threshold) on a numeric column without
\* missing values whose standard deviation is not zero removes exactly the rows
\* with |value - mean| / stddev >= threshold and keeps the others in order.
C9_ZscoreRemoves ==
    (/\ FirstCall("remove_outliers")
     /\ lastCall.param = "zscore"
     /\ HasColumn(original_df, lastCall.column)
     /\ original_df.dtype[lastCall.column] = "num"
     /\ NoMissing(original_df, lastCall.column)
     /\ Len(original_df.rows) > 1
     /\ SumSquares(Ints(original_df, lastCall.column), 1) > 0)
    => LET x == Ints(original_df, lastCall.column)
           kept == {i \in DOMAIN x : ~ZAtLeast(x, i, lastCall.threshold.n, lastCall.threshold.d)}
       IN  /\ ~IsError(result)
           /\ cleaned_df.rows = RowsAt(original_df.rows, kept)
           /\ result.outliers_removed = Len(original_df.rows) - Cardinality(kept)

\* [1,5,9] with threshold 1: the z-scores are 1, 0 and 1, and the two rows
\* whose z-score equals the threshold are removed.
C9_Witness ==
    /\ FirstCall("remove_outliers")
    /\ lastCall = CallOf("remove_outliers", "age", "zscore", Whole(1))
    /\ HasColumn(original_df, "age")
    /\ Column(original_df, "age") = <<Whole(1), Whole(5), Whole(9)>>
    /\ Column(cleaned_df, "age") = <<Whole(5)>>
    /\ result.outliers_removed = 2

Alice == Str(<<"A", "l", "i", "c", "e">>)
Carol == Str(<<"C", "a", "r", "o", "l">>)
BobTitle == Str(<<"B", "o", "b">>)

\* C10, as claimed: standardize_format(column, 'title') and
\* standardize_format(column, 'auto') on ["  bob  ", "ALICE", "Carol"] give
\* ["Bob", "Alice", "Carol"] and report values_changed = 3.
C10_FormatScenarioThree ==
    (/\ FirstCall("standardize_format")
     /\ original_df = FormatTable
     /\ lastCall.column = "name"
     /\ lastCall.param \in {"title", "auto"})
    => /\ ~IsError(result)
       /\ Column(cleaned_df, "name") = <<BobTitle, Alice, Carol>>
       /\ result.values_changed = 3

\* C10, amended: the same calls give ["Bob", "Alice", "Carol"] and report
\* values_changed = 2, the number of cells that differ from before ("Carol" is
\* trimmed and in title case already); both target formats give the same column
\* and the same count.
C10_FormatScenarioTwo ==
    (/\ FirstCall("standardize_format")
     /\ original_df = FormatTable
     /\ lastCall.column = "name"
     /\ lastCall.param \in {"title", "auto"})
    => /\ ~IsError(result)
       /\ Column(cleaned_df, "name") = <<BobTitle, Alice, Carol>>
       /\ result.values_changed = 2
       /\ changes_log = <<result>>
       /\ result.target_format = lastCall.param

\* The scenario column after standardize_format(column, 'auto').
C10_Witness ==
    /\ FirstCall("standardize_format")
    /\ original_df = FormatTable
    /\ lastCall = CallOf("standardize_format", "name", "auto", NA)
    /\ cleaned_df.rows[1].name = BobTitle
    /\ result.values_changed = 2

----------------------------------------------------------------------------
\* Properties of the reading operations and of the tables the DataCleaner
\* keeps, under SpecCaller.

\* A step in which the caller edits a table get_cleaned_data returned.
CallerEdited == clock' = clock /\ returned' # returned

\* A step that is a call of the named operation.
Calls(operation) == clock' = clock + 1 /\ lastCall'.operation = operation

ReadingOperations == {"get_cleaned_data", "get_changes_log", "get_summary"}

\* C11: the table get_cleaned_data returns is a copy of the working table and
\* independent of the DataCleaner: when the caller edits a returned table the
\* working table, the log and every other returned table stay as they were,
\* so a later get_cleaned_data or get_summary returns the working table and
\* its shape as the operations left them.
C11_ReturnedCopyIndependent ==
    [][/\ CallerEdited =>
            /\ cleaned_df' = cleaned_df
            /\ changes_log' = changes_log
            /\ \E i \in DOMAIN returned :
                    \A j \in DOMAIN returned \ {i} : returned'[j] = returned[j]
       /\ Calls("get_cleaned_data") =>
            /\ result'.table = cleaned_df
            /\ returned'[Len(returned')].df = cleaned_df
            /\ cleaned_df' = cleaned_df
            /\ \A j \in DOMAIN returned : returned'[j] = returned[j]
       /\ Calls("get_summary") =>
            /\ result'.cleaned_shape = <<Len(cleaned_df.rows), Len(cleaned_df.cols)>>
            /\ cleaned_df' = cleaned_df
      ]_vars

\* Two tables were returned, the caller edited the first, and the second is
\* the working table as it is.
C11_Witness ==
    /\ Len(returned) = 2
    /\ changes_log = <<>>
    /\ lastCall.operation = "get_cleaned_data"
    /\ returned[1].df # returned[2].df
    /\ returned[2].df = cleaned_df
    /\ cleaned_df = original_df

\* C12: what get_summary returns describes the DataCleaner at the call:
\* original_shape is the shape of the table given at construction,
\* cleaned_shape the shape of the working table, rows_removed the difference
\* of their row counts and operations_performed the length of the log.
C12_SummaryIsCurrent ==
    Called("get_summary") =>
        /\ result.original_shape = <<Len(caller_df.rows), Len(caller_df.cols)>>
        /\ result.cleaned_shape = <<Len(cleaned_df.rows), Len(cleaned_df.cols)>>
        /\ result.rows_removed = Len(caller_df.rows) - Len(cleaned_df.rows)
        /\ result.operations_performed = Len(changes_log)

\* get_summary after an operation that removed rows.
C12_Witness ==
    /\ Called("get_summary")
    /\ result.rows_removed > 0
    /\ result.operations_performed = 1
    /\ result.cleaned_shape # result.original_shape

\* s is a prefix of t.
IsPrefix(s, t) == Len(s) <= Len(t) /\ \A i \in DOMAIN s : t[i] = s[i]

\* C13: the change log is append-only: over every step the log before is a
\* prefix of the log after, and a reading operation leaves the log as it was.
C13_LogAppendOnly ==
    [][/\ IsPrefix(changes_log, changes_log')
       /\ (\E operation \in ReadingOperations : Calls(operation))
            => changes_log' = changes_log
      ]_vars

\* The log of one operation, read back by get_changes_log.
C13_Witness ==
    /\ Called("get_changes_log")
    /\ Len(changes_log) = 1
    /\ result.log = changes_log

\* C14: no step changes the stored original table or the table the caller
\* passed to the constructor.
C14_OriginalUntouched ==
    [][original_df' = original_df /\ caller_df' = caller_df]_vars

\* Two operations changed the working table, the second one in place, and the
\* original and the caller's table are the table given at construction.
C14_Witness ==
    /\ Len(changes_log) = 2
    /\ lastCall.operation \in {"fill_missing_values", "standardize_format"}
    /\ Binding(lastCall, [entry |-> <<result>>, result |-> result]) = "inplace"
    /\ cleaned_df # original_df
    /\ original_df = caller_df
    /\ original_df \in CallerTables

----------------------------------------------------------------------------
\* The MLDataCleaner (src/ml_pipeline/cleaning/ml_cleaner.py): loading the
\* models, analysing a table and recommending operations.  A probability is a
\* whole number of percent.  What the feature extractor and the trained
\* models answer for a column is an input of the analysis, the oracle.

\* has_problem and problems_detected: probability > 0.5.
ProblemThreshold == 50

\* remove_duplicates is recommended for a probability > 0.7.
DuplicateThreshold == 70

problem_types ==
    <<"has_duplicates", "has_missing", "has_outliers", "has_format_issue", "has_type_issue">>

ProblemTypes == {problem_types[i] : i \in DOMAIN problem_types}

\* What the models directory holds: the metadata file ("ok"; "missing",
\* "unreadable" or "malformed", on which open or json.load raises; or readable
\* without the key feature_columns), the model files present, and those of
\* them joblib.load cannot read.
ArtifactSets ==
    {[metadata |-> "ok", model_files |-> ProblemTypes \ missing, unreadable |-> {}] :
        missing \in {{}} \cup {{ptype} : ptype \in ProblemTypes}}
    \cup {[metadata |-> m, model_files |-> ProblemTypes, unreadable |-> {}] :
            m \in {"missing", "unreadable", "malformed", "no_feature_columns"}}
    \cup {[metadata |-> "ok", model_files |-> ProblemTypes, unreadable |-> {ptype}] :
            ptype \in ProblemTypes}

\* _load_models raises: open or json.load of the metadata file raised, or
\* joblib.load of a model file that exists.
LoadRaises(a) ==
    \/ a.metadata \in {"missing", "unreadable", "malformed"}
    \/ a.model_files \cap a.unreadable # {}

\* A loader that takes a missing model file for a model that finds nothing.
LoadedModelsAll(model_files) == problem_types

\* self.models after _load_models, as the keys in insertion order.
LoadedModels(model_files) == SelectSeq(problem_types, LAMBDA ptype : ptype \in model_files)

\* MLDataCleaner.__init__: _load_models
LoadModels ==
    /\ stage = "new"
    /\ \E a \in ArtifactSets :
        /\ artifacts' = a
        /\ IF LoadRaises(a)
           THEN /\ stage' = "failed"
                /\ metadata' = NoResult
                /\ models' = <<>>
           ELSE /\ stage' = "loaded"
                /\ metadata' = [feature_columns |-> a.metadata = "ok"]
                /\ models' = LoadedModels(a.model_files)
    /\ UNCHANGED <<oracle, analysis, recommendations, output, auto_apply>>
    /\ UNCHANGED cleanerVars

\* What model.predict_proba does for one column: two class probabilities, of
\* which the second is p percent; one class only; or an exception.
Proba(p) == [kind |-> "proba", p |-> p]

OneClass == [kind |-> "one_class", p |-> 0]

PredictRaises == [kind |-> "raise", p |-> 0]

\* The answers taken for the model of each problem type.
Predictions(ptype) ==
    CASE ptype = "has_duplicates" -> {Proba(50), Proba(70), Proba(81), PredictRaises}
      [] ptype = "has_missing" -> {Proba(50), Proba(81), PredictRaises}
      [] ptype = "has_type_issue" -> {Proba(50), Proba(81), OneClass}
      [] OTHER -> {Proba(50), Proba(81)}

AllPredictions == UNION {Predictions(ptype) : ptype \in ProblemTypes}

\* The statistics analyze_dataframe copies out of the feature vector.
FeatureVectors ==
    {[missing_percentage |-> 25, duplicate_percentage |-> 0,
      outlier_percentage |-> 0, format_consistency_score |-> 100]}

SetOf(seq) == {seq[i] : i \in DOMAIN seq}

\* The answers analyze_dataframe gets for one column: the extraction raises,
\* or it gives a feature vector and, when the feature columns can be selected,
\* every loaded model answers.
ColumnOracles(loaded, md) ==
    {[extract |-> "raise", features |-> NoResult, proba |-> [ptype \in {} |-> OneClass]]}
    \cup {[extract |-> "ok", features |-> f, proba |-> pr] :
            f \in FeatureVectors,
            pr \in IF md.feature_columns
                   THEN {q \in [SetOf(loaded) -> AllPredictions] :
                            \A ptype \in SetOf(loaded) : q[ptype] \in Predictions(ptype)}
                   ELSE {[ptype \in {} |-> OneClass]}}

Oracles(df, loaded, md) == [SetOf(df.cols) -> ColumnOracles(loaded, md)]

\* A score that counts a probability of exactly 0.5 as a problem.
ScoreInclusive(outcome) ==
    LET prob == IF outcome.kind = "proba" THEN outcome.p ELSE 0
    IN  [probability |-> prob, has_problem |-> prob >= ProblemThreshold]

\* column_problems[ptype] for one answer of the model.
Score(outcome) ==
    IF outcome.kind = "raise"
    THEN [probability |-> 0, has_problem |-> FALSE]
    ELSE LET prob == IF outcome.kind = "proba" THEN outcome.p ELSE 0
         IN  [probability |-> prob, has_problem |-> prob > ProblemThreshold]

\* The items the loop over self.models appends to problems_detected for one column.
Detected(col, loaded, pr) ==
    LET hits == SelectSeq(loaded, LAMBDA ptype :
                    pr[ptype].kind = "proba" /\ pr[ptype].p > ProblemThreshold)
    IN  [i \in 1..Len(hits) |->
            [column |-> col, problem_type |-> hits[i], probability |-> pr[hits[i]].p]]

\* One iteration of the loop over df.columns: the entry of the column and the
\* items appended to problems_detected.
AnalyzeColumn(col, orc, loaded, md) ==
    IF orc.extract = "raise"
    THEN [info |-> [error |-> "extraction failed"], detected |-> <<>>]
    ELSE IF ~md.feature_columns
    THEN [info |-> [error |-> "feature_columns"], detected |-> <<>>]
    ELSE [info |-> [problems |-> [ptype \in SetOf(loaded) |-> Score(orc.proba[ptype])],
                    missing_percentage |-> orc.features.missing_percentage,
                    duplicate_percentage |-> orc.features.duplicate_percentage,
                    outlier_percentage |-> orc.features.outlier_percentage,
                    format_consistency_score |-> orc.features.format_consistency_score],
          detected |-> Detected(col, loaded, orc.proba)]

RECURSIVE Concat(_)
Concat(seqs) == IF seqs = <<>> THEN <<>> ELSE Head(seqs) \o Concat(Tail(seqs))

\* analyze_dataframe(df): the report.  columns is the dict in insertion order.
AnalyzeDataframe(df, orc, loaded, md) ==
    LET per == [i \in DOMAIN df.cols |-> AnalyzeColumn(df.cols[i], orc[df.cols[i]], loaded, md)]
    IN  [total_rows |-> Len(df.rows),
         total_columns |-> Len(df.cols),
         columns |-> [i \in DOMAIN df.cols |-> [name |-> df.cols[i], info |-> per[i].info]],
         problems_detected |-> Concat([i \in DOMAIN df.cols |-> per[i].detected])]

\* MLDataCleaner.analyze_dataframe on the caller's table.
Analyze ==
    /\ stage = "loaded"
    /\ stage' = "analyzed"
    /\ \E orc \in Oracles(caller_df, models, metadata) :
        /\ oracle' = orc
        /\ analysis' = AnalyzeDataframe(caller_df, orc, models, metadata)
    /\ UNCHANGED <<artifacts, models, metadata, recommendations, output, auto_apply>>
    /\ UNCHANGED cleanerVars

\* A recommender that takes every detected has_duplicates item, whatever its
\* probability.
DuplicateRecommendationAny(detected) ==
    IF \E i \in DOMAIN detected : detected[i].problem_type = "has_duplicates"
    THEN <<[operation |-> "remove_duplicates",
            priority |-> "high",
            reason |-> "duplicates",
            params |-> [keep |-> "first"]]>>
    ELSE <<>>

\* The file-level recommendation: the first item of problems_detected with
\* has_duplicates above 0.7 adds it, and the loop stops there.
DuplicateRecommendation(detected) ==
    IF \E i \in DOMAIN detected :
            /\ detected[i].problem_type = "has_duplicates"
            /\ detected[i].probability > DuplicateThreshold
    THEN <<[operation |-> "remove_duplicates",
            priority |-> "high",
            reason |-> "duplicates",
            params |-> [keep |-> "first"]]>>
    ELSE <<>>

\* A lookup that takes every scored problem type for a problem.
HasProblemScored(problems, ptype) == ptype \in DOMAIN problems

\* problems.get(ptype, {}).get('has_problem', False)
HasProblem(problems, ptype) ==
    ptype \in DOMAIN problems /\ problems[ptype].has_problem

\* The recommendations of one entry of analysis['columns'].
ColumnRecommendations(entry) ==
    IF "error" \in DOMAIN entry.info THEN <<>>
    ELSE LET problems == entry.info.problems
         IN  (IF HasProblem(problems, "has_missing")
              THEN <<[operation |-> "fill_missing_values",
                      column |-> entry.name,
                      priority |-> "medium",
                      reason |-> entry.info.missing_percentage,
                      params |-> [strategy |-> "auto"]]>>
              ELSE <<>>)
             \o (IF HasProblem(problems, "has_outliers")
                 THEN <<[operation |-> "remove_outliers",
                         column |-> entry.name,
                         priority |-> "low",
                         reason |-> entry.info.outlier_percentage,
                         params |-> [method |-> "iqr", threshold |-> Num(3, 2)]]>>
                 ELSE <<>>)
             \o (IF HasProblem(problems, "has_format_issue")
                 THEN <<[operation |-> "standardize_format",
                         column |-> entry.name,
                         priority |-> "low",
                         reason |-> entry.info.format_consistency_score,
                         params |-> [target_format |-> "auto"]]>>
                 ELSE <<>>)

priority_order(priority) ==
    CASE priority = "high" -> 0
      [] priority = "medium" -> 1
      [] priority = "low" -> 2

\* rec put into the sorted list behind every element whose key is not larger.
RECURSIVE InsertByPriority(_, _)
InsertByPriority(sorted, rec) ==
    IF sorted = <<>> THEN <<rec>>
    ELSE IF priority_order(sorted[Len(sorted)].priority) <= priority_order(rec.priority)
    THEN Append(sorted, rec)
    ELSE Append(InsertByPriority(SubSeq(sorted, 1, Len(sorted) - 1), rec),
                sorted[Len(sorted)])

\* The list left in generation order.
Unsorted(recs) == recs

\* recommendations.sort(key=priority_order): a stable sort.
RECURSIVE SortByPriority(_)
SortByPriority(recs) ==
    IF recs = <<>> THEN <<>>
    ELSE InsertByPriority(SortByPriority(SubSeq(recs, 1, Len(recs) - 1)), recs[Len(recs)])

\* recommend_cleaning_operations(analysis)
RecommendCleaningOperations(report) ==
    SortByPriority(
        DuplicateRecommendation(report.problems_detected)
        \o Concat([i \in DOMAIN report.columns |-> ColumnRecommendations(report.columns[i])]))

Recommend ==
    /\ stage = "analyzed"
    /\ stage' = "recommended"
    /\ recommendations' = RecommendCleaningOperations(analysis)
    /\ UNCHANGED <<artifacts, models, metadata, oracle, analysis, output, auto_apply>>
    /\ UNCHANGED cleanerVars

\* The tables analysed: two columns, a numeric column, a text column.
AnalyzerTables == {MessyTable, OutlierTable, FormatTable}

InitAnalyzer == NoAnalyzer /\ \E df \in AnalyzerTables : Construct(df)

NextAnalyzer ==
    \/ LoadModels
    \/ Analyze
    \/ Recommend

SpecAnalyzer == InitAnalyzer /\ [][NextAnalyzer]_vars

----------------------------------------------------------------------------
\* Properties of the analysis report and of the recommendations, under
\* SpecAnalyzer.

\* The entries of the report that are not marked errored.
Scored == {i \in DOMAIN analysis.columns : "error" \notin DOMAIN analysis.columns[i].info}

\* The probability the report gives column entry i for ptype, -1 when it has
\* no score for it.
Probability(i, ptype) ==
    IF i \in Scored /\ ptype \in DOMAIN analysis.columns[i].info.problems
    THEN analysis.columns[i].info.problems[ptype].probability
    ELSE -1

\* The positions of the recommendations of an operation.
RecsOf(operation) ==
    {k \in DOMAIN recommendations : recommendations[k].operation = operation}

\* The positions of the recommendations of an operation on a column.
RecsOn(operation, column) ==
    {k \in RecsOf(operation) : recommendations[k].column = column}

\* C15: the recommendations hold exactly one remove_duplicates, of priority
\* high and without a target column, when some non-errored column has a
\* has_duplicates probability above 0.7, and none otherwise.
C15_OneDuplicateRecommendation ==
    stage = "recommended" =>
        /\ Cardinality(RecsOf("remove_duplicates")) =
               IF \E i \in Scored : Probability(i, "has_duplicates") > 70 THEN 1 ELSE 0
        /\ \A k \in RecsOf("remove_duplicates") :
               /\ recommendations[k].priority = "high"
               /\ "column" \notin DOMAIN recommendations[k]

\* Both columns are above 0.7 and there is one recommendation.
C15_Witness ==
    /\ stage = "recommended"
    /\ Len(analysis.columns) = 2
    /\ \A i \in DOMAIN analysis.columns : Probability(i, "has_duplicates") = 81
    /\ Cardinality(RecsOf("remove_duplicates")) = 1

\* A column is at 0.7, above 0.5, and there is no recommendation.
C15_WitnessBelow ==
    /\ stage = "recommended"
    /\ \E i \in Scored : Probability(i, "has_duplicates") = 70
    /\ analysis.problems_detected # <<>>
    /\ RecsOf("remove_duplicates") = {}

\* The operation recommended for a problem type, and its fixed fields.
ColumnOperations ==
    {[ptype |-> "has_missing", operation |-> "fill_missing_values",
      priority |-> "medium", params |-> [strategy |-> "auto"]],
     [ptype |-> "has_outliers", operation |-> "remove_outliers",
      priority |-> "low", params |-> [method |-> "iqr", threshold |-> Num(3, 2)]],
     [ptype |-> "has_format_issue", operation |-> "standardize_format",
      priority |-> "low", params |-> [target_format |-> "auto"]]}

\* C16: for every non-errored column and each of the missing, outlier and
\* format problem types there is exactly one recommendation of its operation
\* on the column when the score has has_problem, none when it has not or the
\* score is absent, with the fixed priority and parameters; errored columns
\* and the type-issue problem give no recommendation.
C16_ColumnRecommendations ==
    stage = "recommended" =>
        /\ \A i \in DOMAIN analysis.columns : \A op \in ColumnOperations :
               LET on == RecsOn(op.operation, analysis.columns[i].name)
                   flagged == /\ i \in Scored
                              /\ op.ptype \in DOMAIN analysis.columns[i].info.problems
                              /\ analysis.columns[i].info.problems[op.ptype].has_problem
               IN  /\ Cardinality(on) = IF flagged THEN 1 ELSE 0
                   /\ \A k \in on :
                          /\ recommendations[k].priority = op.priority
                          /\ recommendations[k].params = op.params
        /\ \A k \in DOMAIN recommendations :
               \/ k \in RecsOf("remove_duplicates")
               \/ \E i \in Scored : \E op \in ColumnOperations :
                      k \in RecsOn(op.operation, analysis.columns[i].name)

\* has_missing is 0.81 for column age and the only recommendation on age is
\* fill_missing_values with strategy auto, although has_type_issue is flagged
\* too; the other column is errored.
C16_Witness ==
    /\ stage = "recommended"
    /\ Len(analysis.columns) = 2
    /\ 1 \notin Scored
    /\ analysis.columns[2].name = "age"
    /\ Probability(2, "has_missing") = 81
    /\ Probability(2, "has_type_issue") = 81
    /\ recommendations = <<[operation |-> "fill_missing_values",
                            column |-> "age",
                            priority |-> "medium",
                            reason |-> 25,
                            params |-> [strategy |-> "auto"]]>>

\* The rank of a priority: high before medium before low.
Rank(priority) == IF priority = "high" THEN 1 ELSE IF priority = "medium" THEN 2 ELSE 3

\* The position of x in the sequence seq, 0 when it is not in it.
IndexIn(seq, x) ==
    IF \E i \in DOMAIN seq : seq[i] = x
    THEN CHOOSE i \in DOMAIN seq : seq[i] = x
    ELSE 0

\* rec was generated before other: remove_duplicates before the column
\* recommendations, these in column order and, within a column, missing before
\* outliers before format.
GeneratedBefore(rec, other) ==
    LET order == <<"fill_missing_values", "remove_outliers", "standardize_format">>
        col(r) == IndexIn(caller_df.cols, r.column)
    IN  \/ rec.operation = "remove_duplicates" /\ other.operation # "remove_duplicates"
        \/ /\ rec.operation # "remove_duplicates"
           /\ other.operation # "remove_duplicates"
           /\ \/ col(rec) < col(other)
              \/ /\ col(rec) = col(other)
                 /\ IndexIn(order, rec.operation) < IndexIn(order, other.operation)

\* C17: the recommendations are sorted by priority rank, high before medium
\* before low, and recommendations of equal priority are in generation order.
C17_SortedStable ==
    stage = "recommended" =>
        \A k, l \in DOMAIN recommendations :
            k < l =>
                /\ Rank(recommendations[k].priority) <= Rank(recommendations[l].priority)
                /\ recommendations[k].priority = recommendations[l].priority
                       => GeneratedBefore(recommendations[k], recommendations[l])

\* One high and four low recommendations with a medium one of the second
\* column, generated after the low ones of the first: high, medium, then the
\* low ones by column and, in a column, remove_outliers before
\* standardize_format.
C17_Witness ==
    /\ stage = "recommended"
    /\ Len(recommendations) = 6
    /\ recommendations[1].operation = "remove_duplicates"
    /\ recommendations[2].operation = "fill_missing_values"
    /\ recommendations[2].column = "age"
    /\ [k \in 3..6 |-> <<recommendations[k].operation, recommendations[k].column>>]
         = [k \in 3..6 |-> <<IF k \in {3, 5} THEN "remove_outliers" ELSE "standardize_format",
                              IF k < 5 THEN "name" ELSE "age">>]

\* The position of a problem type in the order the models are asked.
TypeIndex(ptype) == IndexIn(problem_types, ptype)

\* The positions of the items of problems_detected for an entry and a type.
ItemsOf(i, ptype) ==
    {k \in DOMAIN analysis.problems_detected :
        /\ analysis.problems_detected[k].column = analysis.columns[i].name
        /\ analysis.problems_detected[k].problem_type = ptype}

\* C18: in the report every score has has_problem exactly when its
\* probability is above 0.5; problems_detected holds exactly one item, with
\* that probability, for each column and problem type whose probability is
\* above 0.5 and no other item, in column order and, within a column, in
\* problem-type order.
C18_ProblemsDetected ==
    stage \in {"analyzed", "recommended"} =>
        /\ \A i \in Scored : \A ptype \in DOMAIN analysis.columns[i].info.problems :
               analysis.columns[i].info.problems[ptype].has_problem
                   <=> analysis.columns[i].info.problems[ptype].probability > 50
        /\ \A i \in DOMAIN analysis.columns : \A ptype \in ProblemTypes :
               /\ Cardinality(ItemsOf(i, ptype)) = IF Probability(i, ptype) > 50 THEN 1 ELSE 0
               /\ \A k \in ItemsOf(i, ptype) :
                      analysis.problems_detected[k].probability = Probability(i, ptype)
        /\ \A k \in DOMAIN analysis.problems_detected :
               /\ analysis.problems_detected[k].problem_type \in ProblemTypes
               /\ IndexIn(caller_df.cols, analysis.problems_detected[k].column) > 0
        /\ \A k, l \in DOMAIN analysis.problems_detected :
               k < l =>
                   LET a == analysis.problems_detected[k]
                       b == analysis.problems_detected[l]
                       ca == IndexIn(caller_df.cols, a.column)
                       cb == IndexIn(caller_df.cols, b.column)
                   IN  \/ ca < cb
                       \/ ca = cb /\ TypeIndex(a.problem_type) < TypeIndex(b.problem_type)

\* Every problem type of both columns is above 0.5: ten items, the five of
\* the first column first.
C18_Witness ==
    /\ stage = "analyzed"
    /\ Len(analysis.columns) = 2
    /\ Len(analysis.problems_detected) = 10
    /\ [k \in 1..5 |-> analysis.problems_detected[k].problem_type] = problem_types
    /\ \A k \in 1..5 : analysis.problems_detected[k].column = "name"
    /\ \A k \in 6..10 : analysis.problems_detected[k].column = "age"
    /\ analysis.problems_detected[1].probability = 70

\* The analysis of the column met a failure: the extraction or the selection
\* of the feature columns raised, or a model raised on prediction.
Failed(column) ==
    \/ oracle[column].extract = "raise"
    \/ ~metadata.feature_columns
    \/ \E ptype \in DOMAIN oracle[column].proba : oracle[column].proba[ptype].kind = "raise"

\* C19: a failure while analysing one column does not abort the analysis: the
\* report has an entry for every column, the entry of a failing column is
\* marked errored and problems_detected has no item for it, and the other
\* columns are scored with what the models answered for them.
C19_FailedColumnErrored ==
    stage \in {"analyzed", "recommended"} =>
        /\ [i \in DOMAIN analysis.columns |-> analysis.columns[i].name] = caller_df.cols
        /\ \A i \in DOMAIN analysis.columns :
               IF Failed(analysis.columns[i].name)
               THEN /\ i \notin Scored
                    /\ \A ptype \in ProblemTypes : ItemsOf(i, ptype) = {}
               ELSE /\ i \in Scored
                    /\ \A ptype \in SetOf(models) :
                           Probability(i, ptype) = oracle[analysis.columns[i].name].proba[ptype].p

\* The operations a problem type can cause.
OperationsFor(ptype) ==
    CASE ptype = "has_duplicates" -> {"remove_duplicates"}
      [] ptype = "has_missing" -> {"fill_missing_values"}
      [] ptype = "has_outliers" -> {"remove_outliers"}
      [] ptype = "has_format_issue" -> {"standardize_format"}
      [] OTHER -> {}

\* C20: when the model file of a problem type is missing, loading succeeds,
\* the problem type is in no column's scores and in no item of
\* problems_detected and causes no recommendation, and every column is scored
\* for the other problem types with what their models answered.
C20_MissingModelSkipped ==
    (stage # "new" /\ artifacts.metadata = "ok" /\ artifacts.unreadable = {}) =>
        /\ stage # "failed"
        /\ \A ptype \in ProblemTypes \ artifacts.model_files :
               /\ stage \in {"analyzed", "recommended"} =>
                      /\ \A i \in Scored : ptype \notin DOMAIN analysis.columns[i].info.problems
                      /\ \A i \in DOMAIN analysis.columns : ItemsOf(i, ptype) = {}
               /\ stage = "recommended" =>
                      \A operation \in OperationsFor(ptype) : RecsOf(operation) = {}
        /\ stage \in {"analyzed", "recommended"} =>
               \A i \in Scored :
                   /\ DOMAIN analysis.columns[i].info.problems = artifacts.model_files
                   /\ \A ptype \in artifacts.model_files :
                          Probability(i, ptype) = oracle[analysis.columns[i].name].proba[ptype].p

\* The has_missing model is missing; both columns are scored for the other
\* four problem types and get the recommendations these cause.
C20_Witness ==
    /\ stage = "recommended"
    /\ artifacts.model_files = ProblemTypes \ {"has_missing"}
    /\ Len(analysis.columns) = 2
    /\ Scored = {1, 2}
    /\ Len(analysis.problems_detected) = 8
    /\ Len(recommendations) = 5
    /\ RecsOf("fill_missing_values") = {}

----------------------------------------------------------------------------
\* Properties of loading, under SpecAnalyzer.

\* C21: loading fails fast: when the metadata file is missing, unreadable or
\* malformed, or has no feature-column ordering, or a model file that is
\* present is unreadable, the construction raises and there is no instance to
\* analyse with.
C21_LoadFailsFast ==
    (/\ stage # "new"
     /\ \/ artifacts.metadata # "ok"
        \/ artifacts.model_files \cap artifacts.unreadable # {})
    => stage = "failed"

\* The part of C21 the code keeps: an unreadable metadata or model file makes
\* the construction raise.
C21_UnreadableRaises ==
    (/\ stage # "new"
     /\ \/ artifacts.metadata \in {"missing", "unreadable", "malformed"}
        \/ artifacts.model_files \cap artifacts.unreadable # {})
    => stage = "failed"

----------------------------------------------------------------------------
\* MLDataCleaner.clean_dataframe(df, auto_apply) on the caller's table, step
\* by step: analyze_dataframe, recommend_cleaning_operations, then either the
\* copy of the table with a note, or a DataCleaner that is handed every
\* recommendation in turn and asked for its table and summary.  While the
\* recommendations are applied, clock is the number of them handed over.

\* The dict clean_dataframe returns.
CleanResult(df, report, recs, summary, cleaned) ==
    [original_shape |-> Shape(df),
     cleaned_shape |-> Shape(cleaned),
     analysis |-> report,
     recommendations |-> recs,
     summary |-> summary,
     cleaned_data |-> cleaned]

\* A branch that applies the recommendations whatever auto_apply is.
ShouldApplyAlways(flag) == TRUE

\* if auto_apply:
ShouldApply(flag) == flag

\* auto_apply is False: cleaned_df = df.copy() and the note.
CleanWithoutApply ==
    /\ stage = "recommended"
    /\ ~ShouldApply(auto_apply)
    /\ stage' = "cleaned"
    /\ output' = CleanResult(caller_df, analysis, recommendations,
                             [note |-> "auto_apply was False, no cleaning performed"],
                             caller_df)
    /\ UNCHANGED <<artifacts, models, metadata, oracle, analysis, recommendations,
                   auto_apply>>
    /\ UNCHANGED cleanerVars

\* auto_apply is True: cleaner = DataCleaner(df)
CleanConstruct ==
    /\ stage = "recommended"
    /\ ShouldApply(auto_apply)
    /\ stage' = "applying"
    /\ ids' = ConstructIds
    /\ returned' = <<>>
    /\ original_df' = caller_df
    /\ cleaned_df' = caller_df
    /\ changes_log' = <<>>
    /\ clock' = 0
    /\ lastCall' = NoCall
    /\ result' = NoResult
    /\ UNCHANGED <<caller_df, artifacts, models, metadata, oracle, analysis,
                   recommendations, output, auto_apply>>

\* The call the loop makes for a recommendation.
CallFor(rec) ==
    CASE rec.operation = "remove_duplicates" ->
            CallOf("remove_duplicates", "", rec.params.keep, NA)
      [] rec.operation = "fill_missing_values" ->
            CallOf("fill_missing_values", rec.column, rec.params.strategy, NA)
      [] rec.operation = "remove_outliers" ->
            CallOf("remove_outliers", rec.column, rec.params.method, rec.params.threshold)
      [] rec.operation = "standardize_format" ->
            CallOf("standardize_format", rec.column, rec.params.target_format, NA)

\* What the DataCleaner does on a call.
Dispatch(df, call, now) ==
    CASE call.operation = "remove_duplicates" ->
            RemoveDuplicatesOp(df, call.param, now)
      [] call.operation = "fill_missing_values" ->
            FillMissingValuesOp(df, call.column, call.param, now)
      [] call.operation = "remove_outliers" ->
            RemoveOutliersOp(df, call.column, call.param, call.threshold, now)
      [] call.operation = "standardize_format" ->
            StandardizeFormatOp(df, call.column, call.param, now)

\* A loop that stops at the first recommendation that returned an error.
LoopDoneOnError(handed, recs, last) == handed = Len(recs) \/ IsError(last)

\* for rec in recommendations: is over when every one was handed over.
LoopDone(handed, recs, last) == handed = Len(recs)

\* One iteration of the loop over the recommendations.
ApplyRecommendation ==
    /\ stage = "applying"
    /\ ~LoopDone(clock, recommendations, result)
    /\ LET call == CallFor(recommendations[clock + 1])
       IN  Effect(call, Dispatch(cleaned_df, call, clock + 1))

\* After the loop: get_cleaned_data, get_summary and the returned dict.
CleanFinish ==
    /\ stage = "applying"
    /\ LoopDone(clock, recommendations, result)
    /\ stage' = "cleaned"
    /\ returned' = Append(returned, [id |-> ReturnedId(ids.cleaned, FreshId(UsedIds)),
                                     df |-> cleaned_df])
    /\ output' = CleanResult(caller_df, analysis, recommendations,
                             Summary(original_df, cleaned_df, changes_log),
                             cleaned_df)
    /\ UNCHANGED <<artifacts, models, metadata, oracle, analysis, recommendations,
                   auto_apply>>
    /\ UNCHANGED <<original_df, cleaned_df, changes_log, clock, lastCall, result,
                   caller_df, ids>>

\* An MLDataCleaner that loaded its metadata and its five models, and a call
\* of clean_dataframe with either value of auto_apply.
Loaded ==
    /\ auto_apply \in BOOLEAN
    /\ stage = "loaded"
    /\ artifacts = [metadata |-> "ok", model_files |-> ProblemTypes, unreadable |-> {}]
    /\ models = problem_types
    /\ metadata = [feature_columns |-> TRUE]
    /\ oracle = <<>>
    /\ analysis = NoResult
    /\ recommendations = <<>>
    /\ output = NoResult

InitClean == Loaded /\ \E df \in AnalyzerTables : Construct(df)

NextClean ==
    \/ Analyze
    \/ Recommend
    \/ CleanWithoutApply
    \/ CleanConstruct
    \/ ApplyRecommendation
    \/ CleanFinish

SpecClean == InitClean /\ [][NextClean]_vars

----------------------------------------------------------------------------
\* Properties of clean_dataframe, under SpecClean.

\* C22: clean_dataframe with auto_apply false performs no cleaning operation:
\* cleaned_data is the input table, cleaned_shape is original_shape, the summary
\* has the note and nothing else, and the analysis and the recommendations are
\* returned; and no step, for either value of auto_apply, changes the caller's
\* table.
C22_NoApplyNoCleaning ==
    /\ []((stage = "cleaned" /\ ~auto_apply) =>
            /\ output.cleaned_data = caller_df
            /\ output.original_shape = <<Len(caller_df.rows), Len(caller_df.cols)>>
            /\ output.cleaned_shape = output.original_shape
            /\ DOMAIN output.summary = {"note"}
            /\ output.analysis = analysis
            /\ Len(output.analysis.columns) = Len(caller_df.cols)
            /\ output.recommendations = recommendations
            /\ changes_log = <<>>
            /\ clock = 0)
    /\ [][caller_df' = caller_df]_vars

\* auto_apply is false and none of the seven recommendations was carried out.
C22_Witness ==
    /\ stage = "cleaned"
    /\ ~auto_apply
    /\ Len(output.recommendations) = 7
    /\ output.cleaned_data = MessyTable
    /\ "note" \in DOMAIN output.summary

\* The operation and the column of a recommendation or of a log entry.
Target(r) == <<r.operation, IF "column" \in DOMAIN r THEN r.column ELSE "">>

Targets(seq) == [i \in DOMAIN seq |-> Target(seq[i])]

\* s can be had from t by leaving elements out.
RECURSIVE IsSubsequence(_, _)
IsSubsequence(s, t) ==
    IF s = <<>> THEN TRUE
    ELSE IF t = <<>> THEN FALSE
    ELSE IF Head(s) = Head(t) THEN IsSubsequence(Tail(s), Tail(t))
    ELSE IsSubsequence(s, Tail(t))

\* C23: clean_dataframe with auto_apply true hands every recommendation to the
\* one DataCleaner exactly once and in list order, whatever the earlier ones
\* returned: the k-th call is the operation of the k-th recommendation on its
\* column with its parameters, and the loop ends after the last; so the
\* operations of the summary's log are a subsequence of the recommendations
\* and operations_performed is at most their number.
C23_EveryRecommendationOnce ==
    /\ [][/\ (stage = "applying" /\ clock' = clock + 1) =>
                LET rec == recommendations[clock + 1]
                IN  /\ clock < Len(recommendations)
                    /\ Target(lastCall') = Target(rec)
                    /\ lastCall'.param \in
                           {rec.params[f] : f \in DOMAIN rec.params \ {"threshold"}}
                    /\ "threshold" \in DOMAIN rec.params
                           => lastCall'.threshold = rec.params.threshold
                    /\ original_df' = original_df
          /\ (stage = "applying" /\ stage' = "cleaned") => clock = Len(recommendations)
         ]_vars
    /\ []((stage = "cleaned" /\ auto_apply) =>
            /\ IsSubsequence(Targets(output.summary.changes_log), Targets(recommendations))
            /\ output.summary.operations_performed = Len(changes_log)
            /\ output.summary.operations_performed <= Len(recommendations))

\* Seven recommendations were handed over; two of them returned an error, the
\* last one among them, and five are in the log.
C23_Witness ==
    /\ stage = "cleaned"
    /\ auto_apply
    /\ clock = 7
    /\ Len(recommendations) = 7
    /\ IsError(result)
    /\ output.summary.operations_performed = 5

\* No two rows of the table are identical.
NoIdenticalRows(df) ==
    \A i, j \in DOMAIN df.rows : i < j => df.rows[i] # df.rows[j]

\* C26, as claimed: after clean_dataframe with auto_apply true whose
\* recommendations contain remove_duplicates the returned table has no two
\* identical rows.
C26_NoDuplicatesAfterClean ==
    (/\ stage = "cleaned"
     /\ auto_apply
     /\ \E k \in DOMAIN recommendations : recommendations[k].operation = "remove_duplicates")
    => NoIdenticalRows(output.cleaned_data)

\* C26, amended: remove_duplicates is the first recommendation and right after
\* it the working table has no two identical rows; when the returned table
\* has two, a fill_missing_values or a standardize_format that came after it
\* is in the log.
C26_NoDuplicatesAfterFirstStep ==
    /\ (stage \in {"recommended", "applying", "cleaned"}) =>
           \A k \in DOMAIN recommendations :
               recommendations[k].operation = "remove_duplicates" => k = 1
    /\ (stage = "applying" /\ clock = 1 /\ lastCall.operation = "remove_duplicates")
           => NoIdenticalRows(cleaned_df)
    /\ (/\ stage = "cleaned"
        /\ auto_apply
        /\ recommendations # <<>>
        /\ recommendations[1].operation = "remove_duplicates"
        /\ ~NoIdenticalRows(output.cleaned_data))
           => \E i \in DOMAIN changes_log :
                  changes_log[i].operation \in {"fill_missing_values", "standardize_format"}

\* remove_duplicates removed rows and the fill of column age that followed
\* made two of the remaining rows identical.
C26_Witness ==
    /\ stage = "cleaned"
    /\ auto_apply
    /\ Len(changes_log) = 2
    /\ changes_log[1].operation = "remove_duplicates"
    /\ changes_log[1].rows_removed = 2
    /\ changes_log[2].operation = "fill_missing_values"
    /\ ~NoIdenticalRows(output.cleaned_data)

----------------------------------------------------------------------------
\* Parameter validation and the counts the operations report.

SupportedStrategies == {"auto", "mean", "median", "mode", "drop"}
SupportedMethods == {"iqr", "zscore"}
SupportedFormats == {"upper", "lower", "title", "auto"}

\* The call just made carries a parameter value outside the supported set.
UnsupportedParameter ==
    \/ lastCall.operation = "fill_missing_values" /\ lastCall.param \notin SupportedStrategies
    \/ lastCall.operation = "remove_outliers" /\ lastCall.param \notin SupportedMethods
    \/ lastCall.operation = "standardize_format" /\ lastCall.param \notin SupportedFormats

\* C24: a call with an unsupported strategy, method or target_format returns
\* an error-shaped result and leaves the working table and the log as they
\* were, whatever the column holds.
C24_UnsupportedParameterIsError ==
    (clock = 1 /\ UnsupportedParameter)
        => (IsError(result) /\ cleaned_df = original_df /\ changes_log = <<>>)

\* C24, the part the code does implement: remove_outliers with an unknown
\* method returns an error and changes nothing.
C24_UnknownMethodIsError ==
    (clock = 1 /\ lastCall.operation = "remove_outliers"
               /\ lastCall.param \notin SupportedMethods)
        => (IsError(result) /\ cleaned_df = original_df /\ changes_log = <<>>)

\* Whether a cell holds another value after the call than before; a cell that
\* was missing and stays missing holds the same value.
ValueDiffers(before, after) ==
    IF IsNA(before) \/ IsNA(after) THEN IsNA(before) # IsNA(after) ELSE before # after

\* C25: values_changed of standardize_format is the number of cells of the
\* column whose value after the call differs from the value before; a cell
\* that is missing before and after is not counted.
C25_ValuesChangedCountsDifferences ==
    (clock = 1 /\ lastCall.operation = "standardize_format" /\ ~IsError(result))
        => result.values_changed =
               Cardinality({i \in DOMAIN original_df.rows :
                   ValueDiffers(original_df.rows[i][lastCall.column],
                                cleaned_df.rows[i][lastCall.column])})

\* The call just made is remove_outliers on a numeric column of the table.
OutlierCallOnNumeric ==
    /\ clock = 1
    /\ lastCall.operation = "remove_outliers"
    /\ HasColumn(original_df, lastCall.column)
    /\ IsNumericDtype(original_df, lastCall.column)

\* C27: the z-score method on a numeric column without missing cells whose
\* standard deviation is zero or undefined (all values identical, or one row)
\* removes no row and reports outliers_removed = 0.
C27_ZscoreWithoutSpreadKeepsRows ==
    (/\ OutlierCallOnNumeric
     /\ lastCall.param = "zscore"
     /\ Less(Whole(0), lastCall.threshold)
     /\ MissingCount(original_df, lastCall.column) = 0
     /\ ~Less(Whole(0), Variance(Column(original_df, lastCall.column))))
        => (/\ ~IsError(result)
            /\ cleaned_df = original_df
            /\ result.outliers_removed = 0)

\* C28: remove_outliers (iqr or zscore) keeps every row whose cell in the
\* column is missing: the column has as many missing cells after the call as
\* before.
C28_MissingCellsAreKept ==
    (OutlierCallOnNumeric /\ lastCall.param \in SupportedMethods)
        => (/\ ~IsError(result)
            /\ MissingCount(cleaned_df, lastCall.column)
                   = MissingCount(original_df, lastCall.column))

\* C29: a fill with a strategy other than drop that reports values_filled = k > 0
\* and logs its entry turned exactly k cells of the column from missing to
\* non-missing and left no missing cell in the column; also when every cell of
\* the column was missing.
C29_ReportedFillsHappened ==
    (/\ clock = 1
     /\ lastCall.operation = "fill_missing_values"
     /\ ~IsError(result)
     /\ result.values_filled > 0
     /\ result.strategy_used # "drop")
        => (/\ changes_log = <<result>>
            /\ Len(cleaned_df.rows) = Len(original_df.rows)
            /\ MissingCount(cleaned_df, lastCall.column) = 0
            /\ MissingCount(original_df, lastCall.column) = result.values_filled)

\* The rows a log entry reports as removed.
RowsReported(entry) ==
    CASE entry.operation = "remove_duplicates" -> entry.rows_removed
      [] entry.operation = "remove_outliers" -> entry.outliers_removed
      [] entry.operation = "fill_missing_values" /\ entry.strategy_used = "drop"
             -> entry.values_filled
      [] OTHER -> 0

RECURSIVE SumRowsReported(_)
SumRowsReported(log) ==
    IF log = <<>> THEN 0 ELSE RowsReported(Head(log)) + SumRowsReported(Tail(log))

\* C30: after any sequence of operations the working table has the columns of
\* the original in the same order and at most as many rows, and rows_removed
\* of get_summary() is the sum of the rows the log entries report as removed.
C30_RowsRemovedIsSumOfLog ==
    /\ cleaned_df.cols = original_df.cols
    /\ cleaned_df.dtype = original_df.dtype
    /\ Len(cleaned_df.rows) <= Len(original_df.rows)
    /\ Summary(original_df, cleaned_df, changes_log).rows_removed
           = SumRowsReported(changes_log)

\* Two operations removed rows one after the other, the second a fill with
\* strategy drop.
C30_Witness ==
    /\ Len(changes_log) = 2
    /\ RowsReported(changes_log[1]) > 0
    /\ changes_log[2].operation = "fill_missing_values"
    /\ changes_log[2].strategy_used = "drop"
    /\ RowsReported(changes_log[2]) > 0
    /\ Len(cleaned_df.rows) > 0

====
